---- MODULE Spec2Model ----
(***************************************************************************)
(* A model of the Academic Calendar Core parser (src/acc_core.py): the     *)
(* text preprocessing, the course / keyword / deadline extractors, the     *)
(* date resolution ladder and the orchestrator parse_dates_from_text.      *)
(*                                                                         *)
(* A text is a sequence of one-character strings; positions are 1-based    *)
(* and a position p names the next character to read, so Len(s)+1 is the   *)
(* end of the text.  A failed match is position 0.                         *)
(***************************************************************************)
EXTENDS Integers, Sequences, FiniteSets, TLC

\* ------------------------------------------------------------------------
\* Characters and the classes the regular expressions of the source use
\* ------------------------------------------------------------------------

LowerSeq == <<"a", "b", "c", "d", "e", "f", "g", "h", "i", "j", "k", "l", "m",
              "n", "o", "p", "q", "r", "s", "t", "u", "v", "w", "x", "y", "z">>

UpperSeq == <<"A", "B", "C", "D", "E", "F", "G", "H", "I", "J", "K", "L", "M",
              "N", "O", "P", "Q", "R", "S", "T", "U", "V", "W", "X", "Y", "Z">>

Lower == {LowerSeq[i] : i \in 1..26}

Upper == {UpperSeq[i] : i \in 1..26}

Letter == Lower \cup Upper

\* \d
Digit == {"0", "1", "2", "3", "4", "5", "6", "7", "8", "9"}

\* \s
Space == {" ", "\t", "\n"}

\* \w
WordChar == Letter \cup Digit \cup {"_"}

\* str.upper() and str.lower(), one character at a time
upper_char(c) ==
    IF c \in Lower THEN UpperSeq[CHOOSE i \in 1..26 : LowerSeq[i] = c] ELSE c

lower_char(c) ==
    IF c \in Upper THEN LowerSeq[CHOOSE i \in 1..26 : UpperSeq[i] = c] ELSE c

str_upper(s) == [i \in 1..Len(s) |-> upper_char(s[i])]

str_lower(s) == [i \in 1..Len(s) |-> lower_char(s[i])]

\* a class read under re.IGNORECASE
AnyCase(C) == C \cup {upper_char(c) : c \in C} \cup {lower_char(c) : c \in C}

\* ------------------------------------------------------------------------
\* Matching primitives: each takes a position (0: the match already failed)
\* and returns the position after the piece it matched, or 0
\* ------------------------------------------------------------------------

\* the least and the greatest of a set of positions that is not empty
MinOf(S) == CHOOSE q \in S : \A r \in S : q <= r

MaxOf(S) == CHOOSE q \in S : \A r \in S : q >= r

\* the first position at or after p whose character is not in C
SkipWhile(s, p, C) ==
    IF p > Len(s) THEN p
    ELSE MinOf({q \in p..Len(s) : s[q] \notin C} \cup {Len(s) + 1})

\* the first position at or after p whose character is in C, or 0
FindChar(s, p, C) ==
    LET found == {q \in p..Len(s) : s[q] \in C}
    IN  IF found = {} THEN 0 ELSE MinOf(found)

\* one literal character c
Lit(s, p, c) == IF p # 0 /\ p <= Len(s) /\ s[p] = c THEN p + 1 ELSE 0

\* c?
Opt(s, p, c) == IF p # 0 /\ p <= Len(s) /\ s[p] = c THEN p + 1 ELSE p

\* [C]* followed by a piece that starts outside C
Star(s, p, C) == IF p = 0 THEN 0 ELSE SkipWhile(s, p, C)

\* [C]+ followed by a piece that starts outside C
Plus(s, p, C) ==
    IF p # 0 /\ p <= Len(s) /\ s[p] \in C THEN SkipWhile(s, p, C) ELSE 0

\* [C]{n}
Exactly(s, p, C, n) ==
    IF p # 0 /\ p + n - 1 <= Len(s) /\ \A i \in p..(p + n - 1) : s[i] \in C
    THEN p + n ELSE 0

\* [C]{lo,hi} followed by a piece that starts outside C
Between(s, p, C, lo, hi) ==
    IF p = 0 THEN 0
    ELSE LET q == SkipWhile(s, p, C)
         IN  IF q - p >= lo /\ q - p <= hi THEN q ELSE 0

\* [^c]+c, also when \s* precedes it: one character or more, then the first c
UntilChar(s, p, c) ==
    IF p = 0 THEN 0
    ELSE LET q == FindChar(s, p, {c})
         IN  IF q > p THEN q + 1 ELSE 0

\* a literal word, compared ignoring case
LitSeq(s, p, w) ==
    IF p # 0 /\ p + Len(w) - 1 <= Len(s)
       /\ \A i \in 1..Len(w) : lower_char(s[p + i - 1]) = lower_char(w[i])
    THEN p + Len(w) ELSE 0

\* s[p:] of the source, p a position
From(s, p) == IF p > Len(s) THEN <<>> ELSE SubSeq(s, p, Len(s))

\* s[p:q] of the source, p and q positions
Slice(s, p, q) == IF q <= p THEN <<>> ELSE SubSeq(s, p, q - 1)

\* the last position at or before p whose character is not in C, or 0
SkipBack(s, p, C) == MaxOf({q \in 1..p : s[q] \notin C} \cup {0})

\* str.strip()
strip(s) == Slice(s, SkipWhile(s, 1, Space), SkipBack(s, Len(s), Space) + 1)

\* ------------------------------------------------------------------------
\* Text preprocessing
\* ------------------------------------------------------------------------

\* [APM]{2} under re.IGNORECASE
APM == AnyCase({"A", "P", "M"})

\* ^\[[\d/]+,?\s+[\d:]+\s*[APM]{2}\]\s*[^:]+:\s*
envelope_bracket_ampm(s) ==
    LET p1 == Lit(s, 1, "[")
        p2 == Plus(s, p1, Digit \cup {"/"})
        p3 == Opt(s, p2, ",")
        p4 == Plus(s, p3, Space)
        p5 == Plus(s, p4, Digit \cup {":"})
        p6 == Star(s, p5, Space)
        p7 == Exactly(s, p6, APM, 2)
        p8 == Lit(s, p7, "]")
        p9 == UntilChar(s, p8, ":")
    IN  Star(s, p9, Space)

\* ^[^,]+,\s*\[[\d/]+\s+[\d:]+\s*[APM]{2}\]\s*
envelope_sender_first(s) ==
    LET p1 == UntilChar(s, 1, ",")
        p2 == Star(s, p1, Space)
        p3 == Lit(s, p2, "[")
        p4 == Plus(s, p3, Digit \cup {"/"})
        p5 == Plus(s, p4, Space)
        p6 == Plus(s, p5, Digit \cup {":"})
        p7 == Star(s, p6, Space)
        p8 == Exactly(s, p7, APM, 2)
        p9 == Lit(s, p8, "]")
    IN  Star(s, p9, Space)

\* ^\[[\d/]+,?\s+[\d:]+\]\s*[^:]+:\s*
envelope_bracket_24h(s) ==
    LET p1 == Lit(s, 1, "[")
        p2 == Plus(s, p1, Digit \cup {"/"})
        p3 == Opt(s, p2, ",")
        p4 == Plus(s, p3, Space)
        p5 == Plus(s, p4, Digit \cup {":"})
        p6 == Lit(s, p5, "]")
        p7 == UntilChar(s, p6, ":")
    IN  Star(s, p7, Space)

\* ^Forwarded message.*?:\s*   ('.' does not match a newline)
envelope_forwarded(s) ==
    LET p1 == LitSeq(s, 1, <<"F", "o", "r", "w", "a", "r", "d", "e", "d", " ",
                               "m", "e", "s", "s", "a", "g", "e">>)
        q  == IF p1 = 0 THEN 0 ELSE FindChar(s, p1, {":", "\n"})
        p2 == IF q # 0 /\ s[q] = ":" THEN q + 1 ELSE 0
    IN  Star(s, p2, Space)

\* ^\d{1,2}/\d{1,2}/\d{2,4},\s+\d{1,2}:\d{2}\s*[APM]{2}\s*-\s*[^:]+:\s*
envelope_dash(s) ==
    LET p1  == Lit(s, Between(s, 1, Digit, 1, 2), "/")
        p2  == Lit(s, Between(s, p1, Digit, 1, 2), "/")
        p3  == Lit(s, Between(s, p2, Digit, 2, 4), ",")
        p4  == Plus(s, p3, Space)
        p5  == Lit(s, Between(s, p4, Digit, 1, 2), ":")
        p6  == Exactly(s, p5, Digit, 2)
        p7  == Star(s, p6, Space)
        p8  == Exactly(s, p7, APM, 2)
        p9  == Star(s, p8, Space)
        p10 == Lit(s, p9, "-")
        p11 == UntilChar(s, p10, ":")
    IN  Star(s, p11, Space)

\* re.sub(pattern, '', cleaned) for a pattern anchored at the start, given
\* the end of its match
sub_prefix(s, e) == IF e = 0 THEN s ELSE From(s, e)

\* the five substitutions of clean_whatsapp_format, one pattern each; an
\* empty text has no prefix to lose
sub_bracket_ampm(s) ==
    IF s = <<>> THEN s ELSE sub_prefix(s, envelope_bracket_ampm(s))

sub_sender_first(s) ==
    IF s = <<>> THEN s ELSE sub_prefix(s, envelope_sender_first(s))

sub_bracket_24h(s) ==
    IF s = <<>> THEN s ELSE sub_prefix(s, envelope_bracket_24h(s))

sub_forwarded(s) ==
    IF s = <<>> THEN s ELSE sub_prefix(s, envelope_forwarded(s))

sub_dash(s) ==
    IF s = <<>> THEN s ELSE sub_prefix(s, envelope_dash(s))

\* clean_whatsapp_format: the five patterns, each applied once, in order
clean_whatsapp_format(raw) ==
    IF raw = <<>> THEN raw
    ELSE strip(sub_dash(sub_forwarded(sub_bracket_24h(
                 sub_sender_first(sub_bracket_ampm(raw))))))

\* re.sub(r'\s+', ' ', text): every run of \s becomes one space, so what
\* stays is each character that is not \s and, as a space, the first
\* character of each run
collapse_spaces(s) ==
    LET kept == {i \in 1..Len(s) : s[i] \notin Space \/ i = 1 \/ s[i - 1] \notin Space}
        nth(k) == CHOOSE i \in kept : Cardinality({j \in kept : j <= i}) = k
    IN  [k \in 1..Cardinality(kept) |->
            IF s[nth(k)] \in Space THEN " " ELSE s[nth(k)]]

RECURSIVE str_replace(_, _, _, _)
\* text.replace(old, new), reading from position p: the occurrences left to
\* right, not overlapping; old is not empty
str_replace(s, p, old, new) ==
    LET found == {q \in p..(Len(s) - Len(old) + 1) : SubSeq(s, q, q + Len(old) - 1) = old}
    IN  IF found = {} THEN From(s, p)
        ELSE Slice(s, p, MinOf(found)) \o new
             \o str_replace(s, MinOf(found) + Len(old), old, new)

\* The two replace calls of the second quote line read, as the source
\* stands, as one call: the literal between its triple quotes is the text
\* to replace, and a straight single quote replaces it.
\* normalize_text; the first quote line replaces the straight double quote
\* by itself twice over
normalize_text(raw) ==
    IF raw = <<>> THEN raw
    ELSE LET t1 == collapse_spaces(raw)
             t2 == str_replace(str_replace(t1, 1, <<"\"">>, <<"\"">>), 1, <<"\"">>, <<"\"">>)
             t3 == str_replace(t2, 1,
                               <<",", " ", "\"", "'", "\"", ")", ".",
                                 "r", "e", "p", "l", "a", "c", "e", "(">>,
                               <<"'">>)
         IN  strip(t3)

\* ------------------------------------------------------------------------
\* Course code extraction
\* ------------------------------------------------------------------------

COURSE_ABBREVIATIONS ==
    {<<"D", "S", "A">>, <<"O", "S">>, <<"H", "C", "I">>, <<"A", "I">>,
     <<"M", "L">>, <<"D", "B">>, <<"D", "M">>, <<"S", "E">>,
     <<"C", "N">>, <<"T", "O", "C">>, <<"D", "B", "M", "S">>, <<"O", "O", "P">>,
     <<"D", "S">>, <<"N", "L", "P">>, <<"C", "V">>, <<"R", "L">>,
     <<"G", "I", "S">>, <<"C", "A", "D">>, <<"I", "O", "T">>, <<"I", "R">>}

EXCLUDE_PATTERNS ==
    {<<"J", "A", "N">>, <<"F", "E", "B">>, <<"M", "A", "R">>, <<"A", "P", "R">>,
     <<"M", "A", "Y">>, <<"J", "U", "N">>, <<"J", "U", "L">>, <<"A", "U", "G">>,
     <<"S", "E", "P">>, <<"O", "C", "T">>, <<"N", "O", "V">>, <<"D", "E", "C">>,
     <<"M", "O", "N">>, <<"T", "U", "E">>, <<"W", "E", "D">>, <<"T", "H", "U">>,
     <<"F", "R", "I">>, <<"S", "A", "T">>, <<"S", "U", "N">>, <<"A", "M">>,
     <<"P", "M">>, <<"G", "M", "T">>, <<"U", "T", "C">>}

\* the nouns that end COURSE_NAME_RE, in the order of its alternation
COURSE_NAME_NOUNS ==
    <<<<"a", "s", "s", "i", "g", "n", "m", "e", "n", "t">>, <<"e", "x", "a", "m">>,
      <<"q", "u", "i", "z">>, <<"p", "r", "o", "j", "e", "c", "t">>,
      <<"c", "o", "u", "r", "s", "e">>, <<"c", "l", "a", "s", "s">>,
      <<"m", "o", "d", "u", "l", "e">>, <<"t", "e", "s", "t">>,
      <<"l", "a", "b">>, <<"h", "o", "m", "e", "w", "o", "r", "k">>>>

\* \b at position p: exactly one of the characters before and at p is a \w
WordBoundary(s, p) ==
    ((p > 1 /\ p - 1 <= Len(s)) /\ s[p - 1] \in WordChar)
        # (p <= Len(s) /\ s[p] \in WordChar)

\* x in seq (a Python list)
InList(x, seq) == \E i \in 1..Len(seq) : seq[i] = x

\* the first position in p..Len(s) at which M holds (M[i] the end of the
\* match that starts at i, 0 for none), or 0
FirstMatch(s, p, M) ==
    IF \E i \in p..Len(s) : M[i] # 0
    THEN CHOOSE i \in p..Len(s) : M[i] # 0 /\ \A j \in p..(i - 1) : M[j] = 0
    ELSE 0

RECURSIVE FindAllFrom(_, _, _, _)
\* re.findall: the matches left to right, each search starting where the
\* last match ended; C[i] is the end of what the match at i captures
FindAllFrom(s, p, M, C) ==
    LET i == FirstMatch(s, p, M)
    IN  IF i = 0 THEN <<>>
        ELSE <<Slice(s, i, C[i])>> \o FindAllFrom(s, M[i], M, C)

\* COURSE_CODE_RE at position p: \b([A-Z]{2,4}\s?\d{2,3})\b
course_code_end(s, p) ==
    IF ~WordBoundary(s, p) THEN 0
    ELSE LET p1 == Between(s, p, Upper, 2, 4)
             p2 == IF p1 # 0 /\ p1 <= Len(s) /\ s[p1] \in Space THEN p1 + 1 ELSE p1
             p3 == Between(s, p2, Digit, 2, 3)
         IN  IF p3 # 0 /\ WordBoundary(s, p3) THEN p3 ELSE 0

\* \b[A-Z]{2,5}\b at position p
upper_word_end(s, p) ==
    IF ~WordBoundary(s, p) THEN 0
    ELSE LET p1 == Between(s, p, Upper, 2, 5)
         IN  IF p1 # 0 /\ WordBoundary(s, p1) THEN p1 ELSE 0

\* [A-Z][a-z]+ under re.IGNORECASE, where whitespace has to follow
name_word(s, p) == Between(s, p, Letter, 2, Len(s))

\* \s+and\s+[A-Z][a-z]+ : one repetition of the group, "and" taken
name_unit_and(s, p) ==
    name_word(s, Plus(s, LitSeq(s, Plus(s, p, Space), <<"a", "n", "d">>), Space))

\* \s+[A-Z][a-z]+ : one repetition of the group, "and" not taken
name_unit_plain(s, p) == name_word(s, Plus(s, p, Space))

\* \s+(?:assignment|exam|...) at position p: the end of the noun, or 0
name_tail(s, p) ==
    LET q == Plus(s, p, Space)
    IN  IF \E k \in 1..Len(COURSE_NAME_NOUNS) : LitSeq(s, q, COURSE_NAME_NOUNS[k]) # 0
        THEN LitSeq(s, q, COURSE_NAME_NOUNS[
                 CHOOSE k \in 1..Len(COURSE_NAME_NOUNS) :
                     /\ LitSeq(s, q, COURSE_NAME_NOUNS[k]) # 0
                     /\ \A j \in 1..(k - 1) : LitSeq(s, q, COURSE_NAME_NOUNS[j]) = 0])
        ELSE 0

RECURSIVE name_units(_, _, _)
\* (?:\s+(?:and\s+)?[A-Z][a-z]+){1,3} then the tail, after n repetitions, in
\* the order the regex engine tries them: one repetition more first ("and"
\* taken, then not), then the tail. The end of the captured name, or 0.
name_units(s, p, n) ==
    LET a  == IF n < 3 THEN name_unit_and(s, p) ELSE 0
        ra == IF a # 0 THEN name_units(s, a, n + 1) ELSE 0
        b  == IF n < 3 THEN name_unit_plain(s, p) ELSE 0
        rb == IF b # 0 THEN name_units(s, b, n + 1) ELSE 0
    IN  IF ra # 0 THEN ra
        ELSE IF rb # 0 THEN rb
        ELSE IF n >= 1 /\ name_tail(s, p) # 0 THEN p
        ELSE 0

\* COURSE_NAME_RE at position p: the end of its group 1, or 0
course_name_capture(s, p) ==
    IF ~WordBoundary(s, p) THEN 0
    ELSE LET p1 == name_word(s, p)
         IN  IF p1 = 0 THEN 0 ELSE name_units(s, p1, 0)

\* code.replace(' ', '')
remove_spaces(s) == SelectSeq(s, LAMBDA c : c # " ")

\* normalized[:3]
first_three(s) == IF Len(s) <= 3 THEN s ELSE SubSeq(s, 1, 3)

\* pass 1: the standard codes whose prefix is not excluded
standard_codes(text_upper) ==
    LET M == [i \in 1..Len(text_upper) |-> course_code_end(text_upper, i)]
        found == FindAllFrom(text_upper, 1, M, M)
    IN  SelectSeq(found,
                  LAMBDA code : first_three(remove_spaces(code)) \notin EXCLUDE_PATTERNS)

RECURSIVE append_new(_, _)
\* for x in found: if x not in courses: courses.append(x)
append_new(courses, found) ==
    IF found = <<>> THEN courses
    ELSE LET x == Head(found)
         IN  append_new(IF ~InList(x, courses) THEN Append(courses, x) ELSE courses,
                        Tail(found))

\* pass 2: the whole words of 2 to 5 capitals
abbreviation_words(text_upper) ==
    LET M == [i \in 1..Len(text_upper) |-> upper_word_end(text_upper, i)]
    IN  FindAllFrom(text_upper, 1, M, M)

\* pass 3: COURSE_NAME_RE.findall(text)
course_names(s) ==
    LET C == [i \in 1..Len(s) |-> course_name_capture(s, i)]
        M == [i \in 1..Len(s) |-> IF C[i] = 0 THEN 0 ELSE name_tail(s, C[i])]
    IN  FindAllFrom(s, 1, M, C)

\* course_key comparing the candidates as they are written
course_key_verbatim(course) == course

\* course.upper().replace(' ', '')
course_key(course) == remove_spaces(str_upper(course))

RECURSIVE unique_by_key(_, _, _)
\* the loop that removes duplicates while preserving order
unique_by_key(courses, seen, unique_courses) ==
    IF courses = <<>> THEN unique_courses
    ELSE LET course == Head(courses)
             key == course_key(course)
         IN  IF key \notin seen
             THEN unique_by_key(Tail(courses), seen \cup {key}, Append(unique_courses, course))
             ELSE unique_by_key(Tail(courses), seen, unique_courses)

\* the candidates of the three passes, as the list the last loop reads
course_candidates(s) ==
    LET text_upper == str_upper(s)
        c1 == standard_codes(text_upper)
        c2 == append_new(c1, SelectSeq(abbreviation_words(text_upper),
                                       LAMBDA w : w \in COURSE_ABBREVIATIONS))
        names == [i \in 1..Len(course_names(s)) |-> strip(course_names(s)[i])]
    IN  append_new(c2, SelectSeq(names, LAMBDA name : name # <<>>))

\* extract_course_codes, for a string
extract_course_codes(s) ==
    IF s = <<>> THEN <<>>
    ELSE unique_by_key(course_candidates(s), {}, <<>>)

\* ------------------------------------------------------------------------
\* Keyword extraction
\* ------------------------------------------------------------------------

KEYWORDS ==
    <<<<"e", "x", "a", "m">>, <<"t", "e", "s", "t">>,
      <<"q", "u", "i", "z">>, <<"m", "i", "d", "t", "e", "r", "m">>,
      <<"f", "i", "n", "a", "l">>, <<"a", "s", "s", "e", "s", "s", "m", "e", "n", "t">>,
      <<"a", "s", "s", "i", "g", "n", "m", "e", "n", "t">>, <<"h", "o", "m", "e", "w", "o", "r", "k">>,
      <<"p", "r", "o", "j", "e", "c", "t">>, <<"l", "a", "b">>,
      <<"p", "r", "a", "c", "t", "i", "c", "a", "l">>, <<"t", "u", "t", "o", "r", "i", "a", "l">>,
      <<"s", "u", "b", "m", "i", "s", "s", "i", "o", "n">>, <<"s", "u", "b", "m", "i", "t">>,
      <<"d", "u", "e">>, <<"d", "e", "a", "d", "l", "i", "n", "e">>,
      <<"h", "a", "n", "d", " ", "i", "n">>, <<"t", "u", "r", "n", " ", "i", "n">>,
      <<"m", "e", "e", "t", "i", "n", "g">>, <<"p", "r", "e", "s", "e", "n", "t", "a", "t", "i", "o", "n">>,
      <<"s", "e", "m", "i", "n", "a", "r">>, <<"l", "e", "c", "t", "u", "r", "e">>,
      <<"c", "l", "a", "s", "s">>, <<"s", "e", "s", "s", "i", "o", "n">>,
      <<"g", "r", "a", "d", "e">>, <<"m", "a", "r", "k", "e", "d">>,
      <<"g", "r", "a", "d", "e", "d">>, <<"r", "e", "s", "u", "l", "t">>,
      <<"s", "c", "o", "r", "e">>, <<"c", "o", "u", "r", "s", "e">>,
      <<"s", "u", "b", "j", "e", "c", "t">>, <<"m", "o", "d", "u", "l", "e">>>>

\* w in s (substring containment)
Contains(s, w) ==
    \E p \in 1..(Len(s) - Len(w) + 1) : SubSeq(s, p, p + Len(w) - 1) = w

\* extract_keywords without text.lower()
extract_keywords_as_written(s) ==
    IF s = <<>> THEN <<>>
    ELSE append_new(<<>>, SelectSeq(KEYWORDS, LAMBDA keyword : Contains(s, keyword)))

\* extract_keywords, for a string
extract_keywords(s) ==
    IF s = <<>> THEN <<>>
    ELSE append_new(<<>>, SelectSeq(KEYWORDS,
                                    LAMBDA keyword : Contains(str_lower(s), keyword)))

\* ------------------------------------------------------------------------
\* Deadline phrase extraction
\* ------------------------------------------------------------------------

\* in the order of the alternation the search pattern is built from
DEADLINE_TRIGGERS ==
    <<<<"d", "e", "a", "d", "l", "i", "n", "e">>, <<"d", "u", "e">>,
      <<"s", "u", "b", "m", "i", "t">>, <<"s", "u", "b", "m", "i", "s", "s", "i", "o", "n">>,
      <<"h", "a", "n", "d", " ", "i", "n">>>>

\* the {0,150} of the deadline pattern
MAX_PHRASE == 150

\* the [:100] of the focused text
MAX_FOCUSED == 100

\* the first word of the sequence ws that matches at p ignoring case: the
\* position after it, or 0
first_alternative(s, p, ws) ==
    IF \E k \in 1..Len(ws) : LitSeq(s, p, ws[k]) # 0
    THEN LitSeq(s, p, ws[CHOOSE k \in 1..Len(ws) :
                             /\ LitSeq(s, p, ws[k]) # 0
                             /\ \A j \in 1..(k - 1) : LitSeq(s, p, ws[j]) = 0])
    ELSE 0

\* [^.!?\n]{0,150} from position p: the position after it
phrase_end(s, p) ==
    LET q == SkipWhile(s, p, {s[i] : i \in 1..Len(s)} \ {".", "!", "?", "\n"})
    IN  IF q - p > MAX_PHRASE THEN p + MAX_PHRASE ELSE q

\* the words the indicator patterns spell out
RELATIVE_DAYS ==
    <<<<"t", "o", "d", "a", "y">>, <<"t", "o", "n", "i", "g", "h", "t">>,
      <<"t", "o", "m", "o", "r", "r", "o", "w">>>>

MONTH_ABBREVIATIONS ==
    <<<<"J", "a", "n">>, <<"F", "e", "b">>, <<"M", "a", "r">>, <<"A", "p", "r">>,
      <<"M", "a", "y">>, <<"J", "u", "n">>, <<"J", "u", "l">>, <<"A", "u", "g">>,
      <<"S", "e", "p">>, <<"O", "c", "t">>, <<"N", "o", "v">>, <<"D", "e", "c">>>>

WEEKDAYS ==
    <<<<"M", "o", "n", "d", "a", "y">>, <<"T", "u", "e", "s", "d", "a", "y">>,
      <<"W", "e", "d", "n", "e", "s", "d", "a", "y">>,
      <<"T", "h", "u", "r", "s", "d", "a", "y">>, <<"F", "r", "i", "d", "a", "y">>,
      <<"S", "a", "t", "u", "r", "d", "a", "y">>, <<"S", "u", "n", "d", "a", "y">>>>

\* a piece followed by \b: the position p if a word boundary is there
ThenBoundary(s, p) == IF p # 0 /\ WordBoundary(s, p) THEN p ELSE 0

\* \b(?:w1|w2|...)\b at position p, some alternative ending at a boundary
whole_word_at(s, p, ws) ==
    /\ WordBoundary(s, p)
    /\ \E k \in 1..Len(ws) : ThenBoundary(s, LitSeq(s, p, ws[k])) # 0

\* \b\d{1,2}:\d{2}\s*[ap]m\b at position p
indicator_time(s, p) ==
    /\ WordBoundary(s, p)
    /\ LET p1 == Lit(s, Between(s, p, Digit, 1, 2), ":")
           p2 == Star(s, Exactly(s, p1, Digit, 2), Space)
           p3 == Lit(s, Exactly(s, p2, {"a", "p", "A", "P"}, 1), "m")
           p4 == Lit(s, Exactly(s, p2, {"a", "p", "A", "P"}, 1), "M")
       IN  ThenBoundary(s, p3) # 0 \/ ThenBoundary(s, p4) # 0

\* \b(?:this|next)\s+\w+\b at position p
indicator_this_next(s, p) ==
    /\ WordBoundary(s, p)
    /\ Plus(s, Plus(s, first_alternative(s, p, <<<<"t", "h", "i", "s">>,
                                                 <<"n", "e", "x", "t">>>>),
                  Space),
            WordChar) # 0

\* \b\d{1,2}[/-]\d{1,2}[/-]\d{2,4}\b at position p
indicator_numeric_date(s, p) ==
    /\ WordBoundary(s, p)
    /\ LET p1 == Exactly(s, Between(s, p, Digit, 1, 2), {"/", "-"}, 1)
           p2 == Exactly(s, Between(s, p1, Digit, 1, 2), {"/", "-"}, 1)
       IN  ThenBoundary(s, Between(s, p2, Digit, 2, 4)) # 0

\* \b\d{1,2}\s+(?:Jan|...|Dec)\w*\s+\d{4}\b at position p
indicator_spelled_date(s, p) ==
    /\ WordBoundary(s, p)
    /\ LET p1 == Plus(s, Between(s, p, Digit, 1, 2), Space)
           p2 == Star(s, first_alternative(s, p1, MONTH_ABBREVIATIONS), WordChar)
           p3 == Plus(s, p2, Space)
       IN  ThenBoundary(s, Between(s, p3, Digit, 4, 4)) # 0

\* some pattern of focused_indicators matches at position p
indicator_at(s, p) ==
    \/ indicator_time(s, p)
    \/ whole_word_at(s, p, RELATIVE_DAYS)
    \/ indicator_this_next(s, p)
    \/ indicator_numeric_date(s, p)
    \/ indicator_spelled_date(s, p)
    \/ whole_word_at(s, p, WEEKDAYS)

\* earliest_indicator by the order of the list: the first match of the
\* first pattern that matches at all
earliest_indicator_by_priority(s) ==
    LET starts(k) ==
            {i \in 1..Len(s) :
                CASE k = 1 -> indicator_time(s, i)
                  [] k = 2 -> whole_word_at(s, i, RELATIVE_DAYS)
                  [] k = 3 -> indicator_this_next(s, i)
                  [] k = 4 -> indicator_numeric_date(s, i)
                  [] k = 5 -> indicator_spelled_date(s, i)
                  [] k = 6 -> whole_word_at(s, i, WEEKDAYS)}
        matching == {k \in 1..6 : starts(k) # {}}
    IN  IF matching = {} THEN 0 ELSE MinOf(starts(MinOf(matching)))

\* the start of the earliest match of any indicator pattern, or 0
earliest_indicator(s) ==
    IF \E i \in 1..Len(s) : indicator_at(s, i)
    THEN CHOOSE i \in 1..Len(s) :
             indicator_at(s, i) /\ \A j \in 1..(i - 1) : ~indicator_at(s, j)
    ELSE 0

\* s[:n]
Truncate(s, n) == IF Len(s) <= n THEN s ELSE SubSeq(s, 1, n)

\* trigger_start by the order of the alternation: the leftmost occurrence
\* of the first trigger of the list that occurs at all
trigger_start_by_priority(s) ==
    LET starts(k) == {i \in 1..Len(s) : LitSeq(s, i, DEADLINE_TRIGGERS[k]) # 0}
        occurring == {k \in 1..Len(DEADLINE_TRIGGERS) : starts(k) # {}}
    IN  IF occurring = {} THEN 0 ELSE MinOf(starts(MinOf(occurring)))

\* where the deadline pattern matches first: the start of the trigger, or 0
trigger_start(s) ==
    IF \E i \in 1..Len(s) : first_alternative(s, i, DEADLINE_TRIGGERS) # 0
    THEN CHOOSE i \in 1..Len(s) :
             /\ first_alternative(s, i, DEADLINE_TRIGGERS) # 0
             /\ \A j \in 1..(i - 1) : first_alternative(s, j, DEADLINE_TRIGGERS) = 0
    ELSE 0

\* the text of full_phrase after the trigger word is the rest of the phrase:
\* the phrase starts with the trigger, which is where split() finds it first
after_trigger_of(s) ==
    LET i == trigger_start(s)
        e == first_alternative(s, i, DEADLINE_TRIGGERS)
    IN  Slice(s, e, phrase_end(s, e))

\* the focused text cut out of after_trigger
focus_of(after_trigger) ==
    LET earliest_pos == earliest_indicator(after_trigger)
    IN  IF earliest_pos # 0
        THEN strip(Truncate(From(after_trigger, earliest_pos), MAX_FOCUSED))
        ELSE Truncate(strip(after_trigger), MAX_FOCUSED)

\* extract_deadline_context, for a string: <<found, full_phrase, focused>>
extract_deadline_context(s) ==
    LET i == trigger_start(s)
        e == first_alternative(s, i, DEADLINE_TRIGGERS)
    IN  IF s = <<>> \/ i = 0 THEN <<FALSE, <<>>, <<>>>>
        ELSE <<TRUE, Slice(s, i, phrase_end(s, e)), focus_of(after_trigger_of(s))>>

\* ------------------------------------------------------------------------
\* Explicit date formats
\* ------------------------------------------------------------------------

\* \d{4}-\d{2}-\d{2} from position p
iso_date(s, p) ==
    LET p1 == Lit(s, Exactly(s, p, Digit, 4), "-")
        p2 == Lit(s, Exactly(s, p1, Digit, 2), "-")
    IN  Exactly(s, p2, Digit, 2)

\* \b(\d{4}-\d{2}-\d{2}(?:T|\s)\d{2}:\d{2}(?::\d{2})?)\b at position p
explicit_iso_datetime(s, p) ==
    /\ WordBoundary(s, p)
    /\ LET p1 == Exactly(s, iso_date(s, p), Space \cup {"T"}, 1)
           p2 == Exactly(s, Lit(s, Exactly(s, p1, Digit, 2), ":"), Digit, 2)
           p3 == Exactly(s, Lit(s, p2, ":"), Digit, 2)
       IN  ThenBoundary(s, p3) # 0 \/ ThenBoundary(s, p2) # 0

\* \b(\d{4}-\d{2}-\d{2})\b at position p
explicit_iso_date(s, p) ==
    WordBoundary(s, p) /\ ThenBoundary(s, iso_date(s, p)) # 0

\* \b(\d{1,2}<sep>\d{1,2}<sep>\d{4})\b at position p
explicit_day_first(s, p, sep) ==
    /\ WordBoundary(s, p)
    /\ LET p1 == Lit(s, Between(s, p, Digit, 1, 2), sep)
           p2 == Lit(s, Between(s, p1, Digit, 1, 2), sep)
       IN  ThenBoundary(s, Exactly(s, p2, Digit, 4)) # 0

\* whether pattern k of extract_explicit_date is found in s
explicit_pattern_found(s, k) ==
    \E p \in 1..Len(s) :
        CASE k = 1 -> explicit_iso_datetime(s, p)
          [] k = 2 -> explicit_iso_date(s, p)
          [] k = 3 -> explicit_day_first(s, p, "/")
          [] OTHER -> explicit_day_first(s, p, "-")

\* the patterns of extract_explicit_date that are found in s, in the order
\* of the list: each of them hands its match to parse_with_dateparser
explicit_matches(s) ==
    SelectSeq(<<1, 2, 3, 4>>, LAMBDA k : explicit_pattern_found(s, k))

\* ------------------------------------------------------------------------
\* Python values
\* ------------------------------------------------------------------------

\* A value is its type's name and its display string; for a str the display
\* string is the text itself.
Str(s) == [type |-> "str", val |-> s]

None == [type |-> "NoneType", val |-> <<"N", "o", "n", "e">>]

is_none(v) == v.type = "NoneType"

\* bool(v): "raises" for a value whose truth test raises (an array of more
\* than one element)
truth(v) ==
    CASE v.type = "str" -> IF v.val # <<>> THEN "true" ELSE "false"
      [] v.type = "NoneType" -> "false"
      [] v.type = "int" -> IF v.val # <<"0">> THEN "true" ELSE "false"
      [] v.type = "list" -> IF v.val # <<"[", "]">> THEN "true" ELSE "false"
      [] OTHER -> "raises"

\* str(v)
py_str(v) == Str(v.val)

\* ------------------------------------------------------------------------
\* Date values and the two external resolvers
\* ------------------------------------------------------------------------

\* A datetime is a clock reading (hours since datetime.min) and, when it is
\* aware, its UTC offset in hours. What a resolver call comes to is a
\* datetime, nothing, or an exception.
NoDate == [kind |-> "none", clock |-> 0, aware |-> FALSE, off |-> 0]

Raised == [kind |-> "raise", clock |-> 0, aware |-> FALSE, off |-> 0]

DateTime(c, a, o) == [kind |-> "datetime", clock |-> c, aware |-> a, off |-> o]

\* the datetimes a resolver hands back here; the last is so close to
\* datetime.min that its UTC reading is out of range
AwareDates == {DateTime(100, TRUE, 0), DateTime(100, TRUE, 2), DateTime(1, TRUE, 2)}

\* what dateparser.parse can come to
DateparserOutcomes == AwareDates \cup {DateTime(100, FALSE, 0), NoDate, Raised}

\* what Calendar.parseDT can come to: a localized time (status not 0),
\* status 0, or an exception
ParsedatetimeOutcomes == AwareDates \cup {NoDate, Raised}

\* whether d.astimezone(timezone.utc) raises OverflowError
astimezone_overflows(d) == d.clock - d.off < 0

\* d.astimezone(timezone.utc), d aware
astimezone_utc(d) == DateTime(d.clock - d.off, TRUE, 0)

\* d.replace(tzinfo=timezone.utc)
replace_tzinfo_utc(d) == DateTime(d.clock, TRUE, 0)

DigitSeq == <<"0", "1", "2", "3", "4", "5", "6", "7", "8", "9">>

RECURSIVE decimal(_)
decimal(n) ==
    IF n < 10 THEN <<DigitSeq[n + 1]>>
    ELSE decimal(n \div 10) \o <<DigitSeq[(n % 10) + 1]>>

\* d.isoformat(): the clock fields, then the offset of an aware value
isoformat(d) ==
    decimal(d.clock) \o
    (IF ~d.aware THEN <<>>
     ELSE <<IF d.off < 0 THEN "-" ELSE "+">>
          \o (IF d.off < 0 THEN <<"0">> \o decimal(0 - d.off) ELSE <<"0">> \o decimal(d.off))
          \o <<":", "0", "0">>)

\* parse_with_dateparser, o what dateparser.parse comes to
parse_with_dateparser(s, o) ==
    IF s = <<>> THEN NoDate
    ELSE IF o.kind = "datetime" THEN o
    ELSE NoDate

\* parse_with_parsedatetime, o what parseDT comes to
parse_with_parsedatetime(s, o) ==
    IF s = <<>> THEN NoDate
    ELSE IF o.kind = "datetime" /\ ~astimezone_overflows(o) THEN astimezone_utc(o)
    ELSE NoDate

RECURSIVE first_date(_, _)
\* the loop of extract_explicit_date over the patterns that matched, os[k]
\* what dateparser.parse comes to for the k-th of them
first_date(s, os) ==
    IF os = <<>> THEN NoDate
    ELSE LET d == parse_with_dateparser(s, Head(os))
         IN  IF d.kind = "datetime" THEN d ELSE first_date(s, Tail(os))

RECURSIVE raised_in(_)
\* whether dateparser.parse raised in a call that loop made
raised_in(os) ==
    IF os = <<>> \/ Head(os).kind = "datetime" THEN FALSE
    ELSE Head(os).kind = "raise" \/ raised_in(Tail(os))

\* extract_explicit_date
extract_explicit_date(s, os) == IF s = <<>> THEN NoDate ELSE first_date(s, os)

\* the tags of parse_date_smart, in the order it tries its strategies
STRATEGIES ==
    <<<<"d", "e", "a", "d", "l", "i", "n", "e", "-", "e", "x", "p", "l", "i", "c", "i", "t">>,
      <<"d", "e", "a", "d", "l", "i", "n", "e", "-", "d", "a", "t", "e", "p", "a", "r", "s", "e", "r">>,
      <<"d", "e", "a", "d", "l", "i", "n", "e", "-", "p", "a", "r", "s", "e", "d", "a", "t", "e", "t", "i", "m", "e">>,
      <<"e", "x", "p", "l", "i", "c", "i", "t", "-", "f", "o", "r", "m", "a", "t">>,
      <<"d", "a", "t", "e", "p", "a", "r", "s", "e", "r", "-", "f", "u", "l", "l">>,
      <<"p", "a", "r", "s", "e", "d", "a", "t", "e", "t", "i", "m", "e", "-", "f", "u", "l", "l">>>>

TAG_NONE == <<"n", "o", "n", "e">>

\* first_rung for "if deadline_focused is not None:"
first_rung_if_present(focused) == IF ~is_none(focused) THEN 1 ELSE 4

\* where parse_date_smart starts: "if deadline_focused:"
first_rung(focused) == IF truth(focused) = "true" THEN 1 ELSE 4

\* next_rung without the dateparser pass over the full text
next_rung_skipping(k) == IF k = 4 THEN 6 ELSE k + 1

\* the strategy tried after strategy k returned nothing
next_rung(k) == k + 1

\* the text strategy k reads
rung_text(k, cleaned_text, focused) == IF k <= 3 THEN focused.val ELSE cleaned_text

\* ------------------------------------------------------------------------
\* The result records of parse_dates_from_text
\* ------------------------------------------------------------------------

empty_input_result(t) ==
    [original_text |-> t, cleaned_text |-> Str(<<>>), courses |-> <<>>,
     keywords |-> <<>>, deadline_phrase |-> None, deadline_focused |-> None,
     datetime_utc |-> None, datetime_iso |-> None, parser_used |-> None,
     error |-> <<"Empty input text">>]

invalid_type_result(t) ==
    [original_text |-> py_str(t), cleaned_text |-> py_str(t), courses |-> <<>>,
     keywords |-> <<>>, deadline_phrase |-> None, deadline_focused |-> None,
     datetime_utc |-> None, datetime_iso |-> None, parser_used |-> None,
     error |-> <<"Invalid input type: expected str, got ", t.type>>]

\* the record of the except branch, e the message of the exception
fault_result(t, e) ==
    [original_text |-> t, cleaned_text |-> t, courses |-> <<>>,
     keywords |-> <<>>, deadline_phrase |-> None, deadline_focused |-> None,
     datetime_utc |-> None, datetime_iso |-> None, parser_used |-> None,
     error |-> <<"Unexpected error: ", e>>]

\* initial_result storing the cleaned text as the original
initial_result_cleaned(t, cleaned_text, cs, ks, phrase, focused) ==
    [original_text |-> Str(cleaned_text), cleaned_text |-> Str(cleaned_text),
     courses |-> cs, keywords |-> ks, deadline_phrase |-> phrase,
     deadline_focused |-> focused, datetime_utc |-> None, datetime_iso |-> None,
     parser_used |-> None]

\* "Initialize result"
initial_result(t, cleaned_text, cs, ks, phrase, focused) ==
    [original_text |-> t, cleaned_text |-> Str(cleaned_text), courses |-> cs,
     keywords |-> ks, deadline_phrase |-> phrase, deadline_focused |-> focused,
     datetime_utc |-> None, datetime_iso |-> None, parser_used |-> None]

\* ensure_utc stamping UTC on every value, aware or not
ensure_utc_stamped(d) == replace_tzinfo_utc(d)

\* "Ensure UTC"
ensure_utc(d) == IF ~d.aware THEN replace_tzinfo_utc(d) ELSE astimezone_utc(d)

\* updated_result leaving parser_used as it was
updated_result_untagged(r, u, tag) ==
    [r EXCEPT !.datetime_utc = [type |-> "datetime", val |-> isoformat(u),
                                clock |-> u.clock, aware |-> u.aware, off |-> u.off],
              !.datetime_iso = Str(isoformat(u))]

\* result.update(...) with the UTC value u and the tag of the strategy
updated_result(r, u, tag) ==
    [r EXCEPT !.datetime_utc = [type |-> "datetime", val |-> isoformat(u),
                                clock |-> u.clock, aware |-> u.aware, off |-> u.off],
              !.datetime_iso = Str(isoformat(u)),
              !.parser_used = Str(tag)]

\* the result before parse_dates_from_text has built one
NoResult == [pending |-> TRUE]

\* ------------------------------------------------------------------------
\* The inputs
\* ------------------------------------------------------------------------

\* how many fragments an input text is put together from, at most
MaxFrags == 2

Fragments ==
    <<\* an envelope: [1/2, 3:45 PM] J:
      <<"[", "1", "/", "2", ",", " ", "3", ":", "4", "5", " ", "P", "M", "]", " ", "J", ":", " ">>,
      \* an envelope: Forwarded message:
      <<"F", "o", "r", "w", "a", "r", "d", "e", "d", " ", "m", "e", "s", "s", "a", "g", "e", ":", " ">>,
      <<"C", "E", " ", "3", "8", "2", " ">>,
      <<"c", "e", "3", "8", "2", " ", "D", "S", "A", " ">>,
      <<"M", "A", "R", "K", "1", "0", "1", " ">>,
      \* Data Structures exam
      <<"D", "a", "t", "a", " ", "S", "t", "r", "u", "c", "t", "u", "r", "e", "s", " ", "e", "x", "a", "m", " ">>,
      \* due 2025-11-15
      <<"d", "u", "e", " ", "2", "0", "2", "5", "-", "1", "1", "-", "1", "5", " ">>,
      \* due tomorrow
      <<"d", "u", "e", " ", "t", "o", "m", "o", "r", "r", "o", "w", " ">>,
      \* CSC101 and MATH201 exams
      <<"C", "S", "C", "1", "0", "1", " ", "a", "n", "d", " ", "M", "A", "T", "H", "2", "0", "1", " ", "e", "x", "a", "m", "s">>,
      <<" ", "\t">>>>

RECURSIVE TextsOf(_)
\* the texts put together from n fragments or fewer
TextsOf(n) ==
    IF n = 0 THEN {<<>>}
    ELSE TextsOf(n - 1)
         \cup {t \o Fragments[k] : t \in TextsOf(n - 1), k \in 1..Len(Fragments)}

\* values that are not text: None, 0, 123, [], [1] and an array of two
\* elements, whose truth test raises
NonTextInputs ==
    {None,
     [type |-> "int", val |-> <<"0">>],
     [type |-> "int", val |-> <<"1", "2", "3">>],
     [type |-> "list", val |-> <<"[", "]">>],
     [type |-> "list", val |-> <<"[", "1", "]">>],
     [type |-> "ndarray", val |-> <<"[", "1", " ", "2", "]">>]}

Inputs == {Str(t) : t \in TextsOf(MaxFrags)} \cup NonTextInputs

\* DUE Friday: final Exams
KeywordsMessage ==
    <<"D", "U", "E", " ", "F", "r", "i", "d", "a", "y", ":", " ", "f", "i",
      "n", "a", "l", " ", "E", "x", "a", "m", "s">>

\* the curly quote characters, which a text may hold: each is one
\* character of the text, written here by its code point (left and right
\* double quote, left and right single quote)
CURLY_QUOTES ==
    {"U+201C", "U+201D", "U+2018", "U+2019"}

\* the length of the run of letters that makes a message long
FillerLen == 160

\* Report due Friday 11:59pm
WeekdayFirstMessage ==
    <<"R", "e", "p", "o", "r", "t", " ", "d", "u", "e", " ", "F", "r", "i",
      "d", "a", "y", " ", "1", "1", ":", "5", "9", "p", "m">>

\* Submit report before the deadline Friday
TriggerOrderMessage ==
    <<"S", "u", "b", "m", "i", "t", " ", "r", "e", "p", "o", "r", "t", " ",
      "b", "e", "f", "o", "r", "e", " ", "t", "h", "e", " ", "d", "e", "a",
      "d", "l", "i", "n", "e", " ", "F", "r", "i", "d", "a", "y">>

\* Exam 2025-11-15, please submit.
EmptyFocusMessage ==
    <<"E", "x", "a", "m", " ", "2", "0", "2", "5", "-", "1", "1", "-", "1",
      "5", ",", " ", "p", "l", "e", "a", "s", "e", " ", "s", "u", "b", "m",
      "i", "t", ".">>

\* the messages of the text specification
Messages ==
    {
     KeywordsMessage, WeekdayFirstMessage, TriggerOrderMessage, EmptyFocusMessage,
     \* Latest marks Graded
      <<"L", "a", "t", "e", "s", "t", " ", "m", "a", "r", "k", "s", " ", "G",
        "r", "a", "d", "e", "d">>,
     \* Meeting 3 PM 30 Oct
      <<"M", "e", "e", "t", "i", "n", "g", " ", "3", " ", "P", "M", " ", "3",
        "0", " ", "O", "c", "t">>,
     \* this month of February 2025 and the deadline for it is 11:59pm today
      <<"t", "h", "i", "s", " ", "m", "o", "n", "t", "h", " ", "o", "f", " ",
        "F", "e", "b", "r", "u", "a", "r", "y", " ", "2", "0", "2", "5", " ",
        "a", "n", "d", " ", "t", "h", "e", " ", "d", "e", "a", "d", "l", "i",
        "n", "e", " ", "f", "o", "r", " ", "i", "t", " ", "i", "s", " ", "1",
        "1", ":", "5", "9", "p", "m", " ", "t", "o", "d", "a", "y">>,
     \* Hand in the lab by next week! Then rest.
      <<"H", "a", "n", "d", " ", "i", "n", " ", "t", "h", "e", " ", "l", "a",
        "b", " ", "b", "y", " ", "n", "e", "x", "t", " ", "w", "e", "e", "k",
        "!", " ", "T", "h", "e", "n", " ", "r", "e", "s", "t", ".">>,
     \* Physics exam
      <<"P", "h", "y", "s", "i", "c", "s", " ", "e", "x", "a", "m">>,
     \* submit Data Structures homework
      <<"s", "u", "b", "m", "i", "t", " ", "D", "a", "t", "a", " ", "S", "t",
        "r", "u", "c", "t", "u", "r", "e", "s", " ", "h", "o", "m", "e", "w",
        "o", "r", "k">>,
     \* Forwarded message: [1/2, 3:45 PM] J: hi
      <<"F", "o", "r", "w", "a", "r", "d", "e", "d", " ", "m", "e", "s", "s",
        "a", "g", "e", ":", " ", "[", "1", "/", "2", ",", " ", "3", ":", "4",
        "5", " ", "P", "M", "]", " ", "J", ":", " ", "h", "i">>,
     \* [10/24/25, 3:45 PM] John: CSC101 due tomorrow
      <<"[", "1", "0", "/", "2", "4", "/", "2", "5", ",", " ", "3", ":", "4",
        "5", " ", "P", "M", "]", " ", "J", "o", "h", "n", ":", " ", "C", "S",
        "C", "1", "0", "1", " ", "d", "u", "e", " ", "t", "o", "m", "o", "r",
        "r", "o", "w">>,
     \* Read (left double quote)Dune(right double quote) for Ann(right single quote)s class
      <<"R", "e", "a", "d", " ", "U+201C", "D", "u", "n", "e",
        "U+201D", " ", "f", "o", "r", " ", "A", "n", "n",
        "U+2019", "s", " ", "c", "l", "a", "s", "s">>,
     \*   Lab   report \t due\n Friday 
      <<" ", " ", "L", "a", "b", " ", " ", " ", "r", "e", "p", "o", "r", "t",
        " ", "\t", " ", "d", "u", "e", "\n", " ", "F", "r", "i", "d", "a",
        "y", " ">>,
     \* due tomorrow, then one long word
      <<"d", "u", "e", " ", "t", "o", "m", "o", "r", "r", "o", "w", " ">>
      \o [i \in 1..FillerLen |-> "x"]}

\* ------------------------------------------------------------------------
\* parse_dates_from_text as a function of its argument and of what the
\* resolvers answer, for the callers in app.py
\* ------------------------------------------------------------------------

RECURSIVE first_yielding(_, _, _)
\* the first strategy from k on that yields when dateparser.parse answers
\* every call with a datetime and parseDT finds nothing: an explicit
\* strategy needs one of its patterns in its text, a dateparser strategy
\* needs a text; 0 for none
first_yielding(k, cleaned_text, focused) ==
    IF k > Len(STRATEGIES) THEN 0
    ELSE LET s == rung_text(k, cleaned_text, focused)
         IN  IF \/ k \in {1, 4} /\ s # <<>> /\ explicit_matches(s) # <<>>
                \/ k \in {2, 5} /\ s # <<>>
             THEN k
             ELSE first_yielding(next_rung(k), cleaned_text, focused)

\* parse_dates_from_text(t) for a value t whose truth test does not raise,
\* when dateparser.parse answers every call with d (NoDate: with nothing)
\* and parseDT finds nothing
parse_dates_from_text(t, d) ==
    IF truth(t) = "false" THEN empty_input_result(t)
    ELSE IF t.type # "str" THEN invalid_type_result(t)
    ELSE LET c == normalize_text(clean_whatsapp_format(t.val))
             ctx == extract_deadline_context(c)
             phrase == IF ctx[1] THEN Str(ctx[2]) ELSE None
             focused == IF ctx[1] THEN Str(ctx[3]) ELSE None
             r0 == initial_result(t, c, extract_course_codes(c),
                                  extract_keywords(c), phrase, focused)
             k == IF d.kind = "datetime"
                  THEN first_yielding(first_rung(focused), c, focused) ELSE 0
         IN  IF k = 0 THEN r0
             ELSE IF d.aware /\ astimezone_overflows(d)
             THEN fault_result(t, "date value out of range")
             ELSE updated_result(r0, ensure_utc(d), STRATEGIES[k])

\* ------------------------------------------------------------------------
\* POST /parse/batch (app.py)
\* ------------------------------------------------------------------------

\* serialize_result that forgets to drop datetime_utc
serialize_result_keeping(r) == r

\* serialize_result: the copy without datetime_utc
serialize_result(r) == [k \in DOMAIN r \ {"datetime_utc"} |-> r[k]]

\* "if len(texts) > 100"
MAX_BATCH == 100

\* the lists of the requests are enumerated up to this length
MaxBatch == 2

\* the field texts of a request body: a JSON list with its items, or
\* another JSON value
JsonList(xs) == [type |-> "list", val |-> <<>>, items |-> xs]

JsonOther(v) == [type |-> v.type, val |-> v.val, items |-> <<>>]

\* CSC101 exam tomorrow, the first text of the deployment test
BatchText ==
    <<"C", "S", "C", "1", "0", "1", " ", "e", "x", "a", "m", " ",
      "t", "o", "m", "o", "r", "r", "o", "w">>

RECURSIVE ListsOf(_)
\* the lists of n items or fewer; the items are two strings and two values
\* that are not strings
ListsOf(n) ==
    IF n = 0 THEN {<<>>}
    ELSE ListsOf(n - 1)
         \cup {Append(xs, x) :
                   xs \in ListsOf(n - 1),
                   x \in {Str(BatchText), Str(<<>>), None,
                          [type |-> "int", val |-> <<"5">>]}}

\* the requests: the short lists, a list of MAX_BATCH items and one of
\* MAX_BATCH + 1, and two values that are not lists
BatchRequests ==
    {JsonList(xs) : xs \in ListsOf(MaxBatch)}
    \cup {JsonList([i \in 1..MAX_BATCH |-> Str(<<>>)]),
          JsonList([i \in 1..(MAX_BATCH + 1) |-> Str(<<>>)])}
    \cup {JsonOther(Str(BatchText)), JsonOther(None)}

\* what dateparser.parse answers while an item is parsed
BatchAnswers == {NoDate, DateTime(100, FALSE, 0), DateTime(1, TRUE, 2)}

NoResponse == [status |-> "none"]

\* jsonify({"success": False, "error": ...}), 400
rejected(message) == [status |-> "400", success |-> FALSE, error |-> message]

\* ------------------------------------------------------------------------
\* parse_dates_from_text, one call
\* ------------------------------------------------------------------------

VARIABLES
    text,           \* the argument of the call
    pc,             \* where the call stands
    cleaned,        \* the local cleaned
    deadline_focused,
    result,         \* the local result, and at the end what is returned
    rung,           \* the strategy parse_date_smart tries next
    faulted,        \* the extractor whose except branch ran, or "none"
    candidates,     \* the list courses of extract_course_codes before the
                    \* duplicates are removed
    calls,          \* the strategies tried so far and whether each yielded
    resolver_raised,\* whether a resolver has raised in this call
    dt,             \* what parse_date_smart returns: the datetime ...
    parser_name,    \* ... and the tag
    texts,          \* parse_batch: the field texts of the request
    results,        \* parse_batch: the local results
    response,       \* parse_batch: what it returns
    tasks,          \* the table tasks: the stored rows by id
    sqlite_sequence,\* AUTOINCREMENT: the largest id the table has given
    now,            \* the clock
    request,        \* the last request to a /tasks endpoint
    reply           \* what its handler returned

call_vars == <<text, pc, cleaned, deadline_focused, result, rung, faulted,
               candidates, calls, resolver_raised, dt, parser_name>>

batch_vars == <<texts, results, response>>

task_vars == <<tasks, sqlite_sequence, now, request, reply>>

vars == <<call_vars, batch_vars, task_vars>>

\* init_database on a fresh file: the table is empty; no request yet
NoTasks ==
    /\ tasks = <<>>
    /\ sqlite_sequence = 0
    /\ now = 0
    /\ request = [op |-> "none"]
    /\ reply = NoResponse

\* no request to /parse/batch
NoBatch ==
    /\ texts = JsonOther(None)
    /\ results = <<>>
    /\ response = NoResponse

\* a call of parse_dates_from_text about to start
CallStart ==
    /\ pc = "validate"
    /\ cleaned = <<>>
    /\ deadline_focused = None
    /\ result = NoResult
    /\ rung = 0
    /\ faulted = "none"
    /\ candidates = <<>>
    /\ calls = <<>>
    /\ resolver_raised = FALSE
    /\ dt = NoDate
    /\ parser_name = TAG_NONE

Init ==
    /\ text \in Inputs
    /\ CallStart
    /\ NoBatch
    /\ NoTasks

\* "Input validation", which runs before the try block
validate_input ==
    /\ pc = "validate"
    /\ IF truth(text) = "raises"
       THEN pc' = "raised" /\ result' = result
       ELSE IF truth(text) = "false"
       THEN pc' = "returned" /\ result' = empty_input_result(text)
       ELSE IF text.type # "str"
       THEN pc' = "returned" /\ result' = invalid_type_result(text)
       ELSE pc' = "preprocess" /\ result' = result
    /\ UNCHANGED <<text, cleaned, deadline_focused, rung, faulted, candidates, calls,
                   resolver_raised, dt, parser_name, batch_vars, task_vars>>

\* "Preprocess text"; an exception here reaches the except branch
preprocess ==
    /\ pc = "preprocess"
    /\ \E fault \in BOOLEAN :
         IF fault
         THEN /\ pc' = "returned"
              /\ result' = fault_result(text, "preprocessing failed")
              /\ cleaned' = cleaned
         ELSE /\ pc' = "extract"
              /\ result' = result
              /\ cleaned' = normalize_text(clean_whatsapp_format(text.val))
    /\ UNCHANGED <<text, deadline_focused, rung, faulted, candidates, calls,
                   resolver_raised, dt, parser_name, batch_vars, task_vars>>

\* "Extract deadline context" and "Initialize result"; each extractor
\* catches its own exceptions and returns nothing found
extract ==
    /\ pc = "extract"
    \* the extractor whose own except branch runs, if any
    /\ \E fault \in {"none", "deadline", "courses", "keywords"} :
         /\ faulted' = fault
         /\ candidates' = IF fault = "courses" \/ cleaned = <<>> THEN <<>>
                          ELSE course_candidates(cleaned)
         /\ LET ctx == IF fault = "deadline" THEN <<FALSE, <<>>, <<>>>>
                       ELSE extract_deadline_context(cleaned)
                phrase == IF ctx[1] THEN Str(ctx[2]) ELSE None
                focused == IF ctx[1] THEN Str(ctx[3]) ELSE None
                cs == IF fault = "courses" THEN <<>> ELSE extract_course_codes(cleaned)
                ks == IF fault = "keywords" THEN <<>> ELSE extract_keywords(cleaned)
            IN  /\ deadline_focused' = focused
                /\ result' = initial_result(text, cleaned, cs, ks, phrase, focused)
                /\ rung' = first_rung(focused)
    /\ pc' = "parse_date_smart"
    /\ UNCHANGED <<text, cleaned, calls, resolver_raised, dt, parser_name,
                   batch_vars, task_vars>>

\* what parse_date_smart does once strategy k has returned d
ladder_step(k, d, r) ==
    /\ calls' = Append(calls, [strategy |-> k, yielded |-> d.kind = "datetime"])
    /\ resolver_raised' = (resolver_raised \/ r)
    /\ IF d.kind = "datetime"
       THEN dt' = d /\ parser_name' = STRATEGIES[k] /\ rung' = rung /\ pc' = "ensure_utc"
       ELSE IF next_rung(k) <= Len(STRATEGIES)
       THEN dt' = dt /\ parser_name' = parser_name /\ rung' = next_rung(k) /\ pc' = pc
       ELSE dt' = NoDate /\ parser_name' = TAG_NONE /\ rung' = rung /\ pc' = "ensure_utc"
    /\ UNCHANGED <<text, cleaned, deadline_focused, result, faulted, candidates,
                   batch_vars, task_vars>>

\* a strategy that is extract_explicit_date
explicit_strategy(k) ==
    LET s == rung_text(k, cleaned, deadline_focused)
    IN  \E os \in [1..Len(explicit_matches(s)) -> DateparserOutcomes] :
            ladder_step(k, extract_explicit_date(s, os), s # <<>> /\ raised_in(os))

\* a strategy that is parse_with_dateparser
dateparser_strategy(k) ==
    \E o \in DateparserOutcomes :
        LET s == rung_text(k, cleaned, deadline_focused)
        IN  ladder_step(k, parse_with_dateparser(s, o), s # <<>> /\ o.kind = "raise")

\* a strategy that is parse_with_parsedatetime
parsedatetime_strategy(k) ==
    \E o \in ParsedatetimeOutcomes :
        LET s == rung_text(k, cleaned, deadline_focused)
        IN  ladder_step(k, parse_with_parsedatetime(s, o),
                        /\ s # <<>>
                        /\ \/ o.kind = "raise"
                           \/ o.kind = "datetime" /\ astimezone_overflows(o))

deadline_explicit ==
    /\ pc = "parse_date_smart" /\ rung = 1
    /\ explicit_strategy(1)

deadline_dateparser ==
    /\ pc = "parse_date_smart" /\ rung = 2
    /\ dateparser_strategy(2)

deadline_parsedatetime ==
    /\ pc = "parse_date_smart" /\ rung = 3
    /\ parsedatetime_strategy(3)

explicit_format ==
    /\ pc = "parse_date_smart" /\ rung = 4
    /\ explicit_strategy(4)

dateparser_full ==
    /\ pc = "parse_date_smart" /\ rung = 5
    /\ dateparser_strategy(5)

parsedatetime_full ==
    /\ pc = "parse_date_smart" /\ rung = 6
    /\ parsedatetime_strategy(6)

\* finish whose except branch returns the result built so far with the
\* error added
finish_keeping_result ==
    /\ pc = "ensure_utc"
    /\ result' =
         IF dt.kind # "datetime" THEN result
         ELSE IF dt.aware /\ astimezone_overflows(dt)
         THEN [k \in DOMAIN result \cup {"error"} |->
                  IF k = "error" THEN <<"Unexpected error: ", "date value out of range">>
                  ELSE result[k]]
         ELSE updated_result(result, ensure_utc(dt), parser_name)
    /\ pc' = "returned"
    /\ UNCHANGED <<text, cleaned, deadline_focused, rung, faulted, candidates, calls,
                   resolver_raised, dt, parser_name, batch_vars, task_vars>>

\* "if dt:" with "Ensure UTC" and the update of the result, then the
\* return; an OverflowError of astimezone reaches the except branch
finish ==
    /\ pc = "ensure_utc"
    /\ result' =
         IF dt.kind # "datetime" THEN result
         ELSE IF dt.aware /\ astimezone_overflows(dt)
         THEN fault_result(text, "date value out of range")
         ELSE updated_result(result, ensure_utc(dt), parser_name)
    /\ pc' = "returned"
    /\ UNCHANGED <<text, cleaned, deadline_focused, rung, faulted, candidates, calls,
                   resolver_raised, dt, parser_name, batch_vars, task_vars>>

\* parse_batch turning the request down: texts is not a list, or is longer
\* than the maximum
batch_reject ==
    /\ response = NoResponse
    /\ \/ /\ texts.type # "list"
          /\ response' = rejected("Field 'texts' must be a list")
       \/ /\ texts.type = "list" /\ Len(texts.items) > MAX_BATCH
          /\ response' = rejected("Maximum batch size is 100 texts")
    /\ UNCHANGED <<texts, results, call_vars, task_vars>>

\* one turn of "for text in texts"
batch_item ==
    /\ response = NoResponse
    /\ texts.type = "list" /\ Len(texts.items) <= MAX_BATCH
    /\ Len(results) < Len(texts.items)
    /\ LET item == texts.items[Len(results) + 1]
       IN  IF item.type = "str"
           THEN \E d \in BatchAnswers :
                    results' = Append(results,
                                      serialize_result(parse_dates_from_text(item, d)))
           ELSE results' = Append(results, [error |-> <<"Invalid text type">>])
    /\ UNCHANGED <<texts, response, call_vars, task_vars>>

\* the return after the loop
batch_respond ==
    /\ response = NoResponse
    /\ texts.type = "list" /\ Len(texts.items) <= MAX_BATCH
    /\ Len(results) = Len(texts.items)
    \* jsonify({"success": True, "data": {"results": ..., "count": ...}}), 200
    /\ response' = [status |-> "200", success |-> TRUE,
                    data |-> [results |-> results, count |-> Len(results)]]
    /\ UNCHANGED <<texts, results, call_vars, task_vars>>

Next ==
    \/ validate_input
    \/ preprocess
    \/ extract
    \/ deadline_explicit
    \/ deadline_dateparser
    \/ deadline_parsedatetime
    \/ explicit_format
    \/ dateparser_full
    \/ parsedatetime_full
    \/ finish

Spec == Init /\ [][Next]_vars

\* a call with one of the messages
TextInit ==
    /\ text \in {Str(m) : m \in Messages}
    /\ CallStart
    /\ NoBatch
    /\ NoTasks

TextSpec == TextInit /\ [][Next]_vars

\* a request to /parse/batch, and no other call
BatchInit ==
    /\ texts \in BatchRequests
    /\ results = <<>>
    /\ response = NoResponse
    /\ text = None
    /\ CallStart
    /\ NoTasks

BatchNext ==
    \/ batch_reject
    \/ batch_item
    \/ batch_respond

BatchSpec == BatchInit /\ [][BatchNext]_vars

\* ------------------------------------------------------------------------
\* The task store of app.py: the table tasks and the handlers of /tasks
\* ------------------------------------------------------------------------

\* the rows one run inserts
MaxTasks == 2

\* the requests one run makes; each reads the clock once
MaxClock == 3

\* whether sqlite3 binds the value as a parameter: text, numbers and None;
\* a list or a dict raises
sqlite_binds(v) == v.type \in {"str", "int", "float", "NoneType"}

\* the requests: the ids of the route /tasks/<int:task_id> are the ids the
\* table can give and one beyond SQLite's 64-bit integers (fits is FALSE);
\* a body is not JSON, or is a JSON object (data)
TaskRequests ==
    LET ids == {[fits |-> TRUE, n |-> n] : n \in 1..MaxTasks}
               \cup {[fits |-> FALSE, n |-> 0]}
        A == Str(<<"A">>)
        unbound == [type |-> "list", val |-> <<"[", "1", "]">>]
        creating == {<<>>, [description |-> A], [title |-> None],
                     [title |-> unbound], [title |-> A],
                     [title |-> A, description |-> A, text |-> Str(<<>>)],
                     [title |-> A, text |-> Str(BatchText)]}
        updating == {<<>>, [text |-> A],
                     [status |-> Str(<<"d", "o", "n", "e">>)],
                     [title |-> None], [description |-> unbound],
                     [title |-> Str(<<"B">>), due_date |-> None]}
    IN  {[op |-> "create", is_json |-> FALSE, data |-> <<>>]}
        \cup {[op |-> "create", is_json |-> TRUE, data |-> b] : b \in creating}
        \cup {[op |-> "update", task_id |-> i, is_json |-> FALSE, data |-> <<>>] :
                 i \in ids}
        \cup {[op |-> "update", task_id |-> i, is_json |-> TRUE, data |-> b] :
                 i \in ids, b \in updating}
        \cup {[op |-> o, task_id |-> i] :
                 o \in {"get", "delete", "complete"}, i \in ids}

\* UPDATE tasks SET ... WHERE id = ? on every row, whatever its id
sql_update_every_row(table, id, changes) ==
    [i \in DOMAIN table |->
        [c \in DOMAIN table[i] |->
            IF c \in DOMAIN changes THEN changes[c] ELSE table[i][c]]]

\* UPDATE tasks SET ... WHERE id = ?: the table afterwards, changes giving
\* the columns that are set
sql_update(table, id, changes) ==
    [i \in DOMAIN table |->
        IF i = id
        THEN [c \in DOMAIN table[i] |->
                 IF c \in DOMAIN changes THEN changes[c] ELSE table[i][c]]
        ELSE table[i]]

\* POST /tasks; d is what dateparser.parse answers while the text is parsed
create_task ==
    /\ now < MaxClock
    /\ \E r \in TaskRequests, d \in BatchAnswers :
        /\ r.op = "create"
        /\ request' = r
        /\ now' = now + 1
        /\ IF ~r.is_json
           THEN /\ reply' = rejected("Request must be JSON")
                /\ UNCHANGED <<tasks, sqlite_sequence>>
           ELSE IF "title" \notin DOMAIN r.data
           THEN /\ reply' = rejected("Missing required field: 'title'")
                /\ UNCHANGED <<tasks, sqlite_sequence>>
           ELSE LET title == r.data.title
                    description == IF "description" \in DOMAIN r.data
                                   THEN r.data.description ELSE Str(<<>>)
                    parses == "text" \in DOMAIN r.data /\ truth(r.data.text) = "true"
                    stamp == Str(isoformat(DateTime(now + 1, TRUE, 0)))
                    task_id == sqlite_sequence + 1
                IN  IF ~sqlite_binds(title) \/ ~sqlite_binds(description)
                    THEN /\ reply' = [status |-> "500", success |-> FALSE,
                                      error |-> "Error binding parameter"]
                         /\ UNCHANGED <<tasks, sqlite_sequence>>
                    ELSE IF is_none(title)
                    THEN /\ reply' = [status |-> "500", success |-> FALSE,
                                      error |-> "NOT NULL constraint failed: tasks.title"]
                         /\ UNCHANGED <<tasks, sqlite_sequence>>
                    ELSE /\ sqlite_sequence < MaxTasks
                         /\ \E parsed_data \in
                                {IF parses THEN parse_dates_from_text(r.data.text, d)
                                 ELSE <<>>} :
                              tasks' =
                                [i \in DOMAIN tasks \cup {task_id} |->
                                    IF i # task_id THEN tasks[i]
                                    ELSE [title |-> title,
                                          description |-> description,
                                          courses |->
                                            [type |-> "json",
                                             val |-> IF parses THEN parsed_data.courses
                                                     ELSE <<>>],
                                          keywords |->
                                            [type |-> "json",
                                             val |-> IF parses THEN parsed_data.keywords
                                                     ELSE <<>>],
                                          due_date |->
                                            IF parses THEN parsed_data.datetime_iso
                                            ELSE None,
                                          status |->
                                            Str(<<"p", "e", "n", "d", "i", "n", "g">>),
                                          created_at |-> stamp,
                                          updated_at |-> stamp,
                                          original_text |->
                                            IF parses THEN r.data.text ELSE Str(<<>>),
                                          parsed_data |->
                                            [type |-> "json",
                                             val |-> IF parses
                                                     THEN serialize_result(parsed_data)
                                                     ELSE <<>>]]]
                         /\ sqlite_sequence' = task_id
                         /\ reply' = [status |-> "201", success |-> TRUE,
                                      data |-> [id |-> task_id, title |-> title],
                                      timestamp |-> stamp]
    /\ UNCHANGED <<call_vars, batch_vars>>

\* GET /tasks/<int:task_id>
get_task ==
    /\ now < MaxClock
    /\ \E r \in TaskRequests :
        /\ r.op = "get"
        /\ request' = r
        /\ now' = now + 1
        /\ reply' =
             IF ~r.task_id.fits
             THEN [status |-> "500", success |-> FALSE,
                   error |-> "Python int too large to convert to SQLite INTEGER"]
             ELSE IF r.task_id.n \notin DOMAIN tasks
             THEN [status |-> "404", success |-> FALSE, error |-> "Task not found"]
             ELSE LET row == tasks[r.task_id.n]
                  IN  [status |-> "200", success |-> TRUE,
                       data |-> [id |-> r.task_id.n,
                                 title |-> row.title,
                                 description |-> row.description,
                                 courses |-> row.courses.val,
                                 keywords |-> row.keywords.val,
                                 due_date |-> row.due_date,
                                 status |-> row.status,
                                 created_at |-> row.created_at,
                                 updated_at |-> row.updated_at,
                                 original_text |-> row.original_text,
                                 parsed_data |-> row.parsed_data.val],
                       timestamp |-> Str(isoformat(DateTime(now + 1, TRUE, 0)))]
    /\ UNCHANGED <<tasks, sqlite_sequence, call_vars, batch_vars>>

\* PUT /tasks/<int:task_id>
update_task ==
    /\ now < MaxClock
    /\ \E r \in TaskRequests :
        /\ r.op = "update"
        /\ request' = r
        /\ now' = now + 1
        /\ LET updates == {"title", "description", "status", "due_date"}
                          \cap DOMAIN r.data
               stamp == Str(isoformat(DateTime(now + 1, TRUE, 0)))
               params == [c \in updates \cup {"updated_at"} |->
                             IF c = "updated_at" THEN stamp ELSE r.data[c]]
           IN  IF ~r.is_json
               THEN /\ reply' = rejected("Request must be JSON")
                    /\ UNCHANGED tasks
               ELSE IF updates = {}
               THEN /\ reply' = rejected("No fields to update")
                    /\ UNCHANGED tasks
               ELSE IF \E c \in updates : ~sqlite_binds(r.data[c])
               THEN /\ reply' = [status |-> "500", success |-> FALSE,
                                 error |-> "Error binding parameter"]
                    /\ UNCHANGED tasks
               ELSE IF ~r.task_id.fits
               THEN /\ reply' = [status |-> "500", success |-> FALSE,
                                 error |-> "Python int too large to convert to SQLite INTEGER"]
                    /\ UNCHANGED tasks
               ELSE IF /\ r.task_id.n \in DOMAIN tasks
                       /\ "title" \in updates
                       /\ is_none(r.data.title)
               THEN /\ reply' = [status |-> "500", success |-> FALSE,
                                 error |-> "NOT NULL constraint failed: tasks.title"]
                    /\ UNCHANGED tasks
               ELSE /\ tasks' = sql_update(tasks, r.task_id.n, params)
                    /\ reply' =
                         IF r.task_id.n \notin DOMAIN tasks
                         THEN [status |-> "404", success |-> FALSE,
                               error |-> "Task not found"]
                         ELSE [status |-> "200", success |-> TRUE,
                               data |-> [id |-> r.task_id.n],
                               timestamp |-> stamp]
    /\ UNCHANGED <<sqlite_sequence, call_vars, batch_vars>>

\* DELETE /tasks/<int:task_id>
delete_task ==
    /\ now < MaxClock
    /\ \E r \in TaskRequests :
        /\ r.op = "delete"
        /\ request' = r
        /\ now' = now + 1
        /\ IF ~r.task_id.fits
           THEN /\ reply' = [status |-> "500", success |-> FALSE,
                             error |-> "Python int too large to convert to SQLite INTEGER"]
                /\ UNCHANGED tasks
           ELSE /\ tasks' = [i \in DOMAIN tasks \ {r.task_id.n} |-> tasks[i]]
                /\ reply' =
                     IF r.task_id.n \notin DOMAIN tasks
                     THEN [status |-> "404", success |-> FALSE,
                           error |-> "Task not found"]
                     ELSE [status |-> "200", success |-> TRUE,
                           data |-> [id |-> r.task_id.n],
                           timestamp |-> Str(isoformat(DateTime(now + 1, TRUE, 0)))]
    /\ UNCHANGED <<sqlite_sequence, call_vars, batch_vars>>

\* POST /tasks/<int:task_id>/complete
complete_task ==
    /\ now < MaxClock
    /\ \E r \in TaskRequests :
        /\ r.op = "complete"
        /\ request' = r
        /\ now' = now + 1
        /\ LET stamp == Str(isoformat(DateTime(now + 1, TRUE, 0)))
               completed == Str(<<"c", "o", "m", "p", "l", "e", "t", "e", "d">>)
           IN  IF ~r.task_id.fits
               THEN /\ reply' = [status |-> "500", success |-> FALSE,
                                 error |-> "Python int too large to convert to SQLite INTEGER"]
                    /\ UNCHANGED tasks
               ELSE /\ tasks' = sql_update(tasks, r.task_id.n,
                                           [status |-> completed, updated_at |-> stamp])
                    /\ reply' =
                         IF r.task_id.n \notin DOMAIN tasks
                         THEN [status |-> "404", success |-> FALSE,
                               error |-> "Task not found"]
                         ELSE [status |-> "200", success |-> TRUE,
                               data |-> [id |-> r.task_id.n, status |-> completed],
                               timestamp |-> stamp]
    /\ UNCHANGED <<sqlite_sequence, call_vars, batch_vars>>

\* the store after init_database, and no other call
TaskInit ==
    /\ NoTasks
    /\ text = None
    /\ CallStart
    /\ NoBatch

TaskNext ==
    \/ create_task
    \/ get_task
    \/ update_task
    \/ delete_task
    \/ complete_task

TaskSpec == TaskInit /\ [][TaskNext]_vars

\* ------------------------------------------------------------------------
\* The properties
\* ------------------------------------------------------------------------

has_result == "original_text" \in DOMAIN result

has_error == "error" \in DOMAIN result

\* C1 as stated: for every input (text or not, empty or not, also when a
\* fault is caught) the result's original_text is the input itself.
C1_original_text_is_input ==
    pc = "returned" => result.original_text = text

\* C1 amended: original_text is the input itself for every text input (also
\* the empty one, also when a fault is caught) and for every input that
\* tests false; for a value that is not text and tests true it is the
\* display string of the input.
C1_original_text_kept_or_displayed ==
    has_result =>
        result.original_text =
            IF text.type = "str" \/ truth(text) = "false" THEN text
            ELSE [type |-> "str", val |-> text.val]

\* C1 witness: a fault caught after the text was cleaned to something else
C1_fault_keeps_original ==
    /\ pc = "returned" /\ has_error
    /\ text.type = "str" /\ cleaned # <<>> /\ cleaned # text.val
    /\ result.original_text = text

C3_normalization_fixed_point ==
    (has_result /\ ~has_error) =>
        normalize_text(clean_whatsapp_format(result.cleaned_text.val))
            = result.cleaned_text.val

\* C4: no two entries of courses are equal after uppercasing and removing
\* the spaces; of the candidates of the three passes that collide the one
\* seen first is kept as written, and the survivors keep their order.
C4_courses_first_seen_unique ==
    has_result =>
        LET Key(x) == remove_spaces(str_upper(x))
            r == result.courses
            cand == candidates
            first == {i \in 1..Len(cand) :
                         \A j \in 1..(i - 1) : Key(cand[j]) # Key(cand[i])}
        IN  /\ \A i, j \in 1..Len(r) : i < j => Key(r[i]) # Key(r[j])
            /\ ~has_error =>
                   /\ Len(r) = Cardinality(first)
                   /\ \A i \in first : r[Cardinality({j \in first : j <= i})] = cand[i]

\* C4 witness: two survivors, and a candidate dropped for colliding
C4_collision_dropped ==
    /\ pc = "returned" /\ ~has_error /\ faulted = "none"
    /\ Len(result.courses) >= 2
    /\ Len(candidates) > Len(result.courses)

\* C5: a datetime_utc that is present carries the UTC zone: an aware value
\* of a resolver is converted to UTC, a naive one keeps its clock fields and
\* is taken as UTC; datetime_iso is the ISO rendering of that UTC value. The
\* parsedatetime strategies hand back UTC values.
C5_datetime_is_utc ==
    /\ (has_result /\ ~is_none(result.datetime_utc)) =>
           LET u == result.datetime_utc
           IN  /\ u.aware /\ u.off = 0
               /\ u.clock = IF dt.aware THEN dt.clock - dt.off ELSE dt.clock
               /\ result.datetime_iso.type = "str"
               /\ result.datetime_iso.val
                      = decimal(u.clock) \o <<"+", "0", "0", ":", "0", "0">>
    /\ (dt.kind = "datetime" /\ calls[Len(calls)].strategy \in {3, 6}) =>
           dt.aware /\ dt.off = 0

\* C5 witness: a value with another zone was resolved and reported
C5_converted_from_zone ==
    /\ pc = "returned" /\ ~has_error
    /\ dt.kind = "datetime" /\ dt.aware /\ dt.off # 0
    /\ ~is_none(result.datetime_utc)

\* C6: a result with an error marker has every extraction field empty or
\* absent, and the empty string gives that shape with cleaned_text "".
C6_error_result_is_empty ==
    /\ (has_result /\ has_error) =>
           /\ result.courses = <<>> /\ result.keywords = <<>>
           /\ is_none(result.deadline_phrase) /\ is_none(result.deadline_focused)
           /\ is_none(result.datetime_utc) /\ is_none(result.datetime_iso)
           /\ is_none(result.parser_used)
    /\ (pc = "returned" /\ text.type = "str" /\ text.val = <<>>) =>
           has_error /\ result.cleaned_text.type = "str" /\ result.cleaned_text.val = <<>>

\* C6 witness: a fault caught after courses and a datetime had been found
C6_fault_after_extraction ==
    /\ pc = "returned" /\ has_error
    /\ faulted = "none" /\ candidates # <<>>
    /\ dt.kind = "datetime"

\* C7 as stated: every input that is not text, the ones that test false
\* included, gets the all-empty result with the type-mismatch marker and
\* its display string as original_text.
C7_non_text_gets_type_mismatch ==
    (pc = "returned" /\ text.type # "str") =>
        /\ has_error
        /\ result.error = <<"Invalid input type: expected str, got ", text.type>>
        /\ result.original_text = [type |-> "str", val |-> text.val]
        /\ result.courses = <<>> /\ result.keywords = <<>>

\* C8 as stated: no fault escapes parse_dates_from_text, wherever in the
\* run it is raised, input validation included.
C8_no_fault_escapes == pc # "raised"

\* C9: the ladder tries its strategies in the fixed order, the three
\* deadline strategies only when the focused span is not empty; a strategy
\* that raises or returns nothing is followed by the next one; no strategy
\* is tried after one that yielded; the tag returned is that of the
\* strategy that yielded, and "none" only when all were tried and failed.
C9_ladder_in_order ==
    LET n == Len(calls)
        start == IF deadline_focused.type = "str" /\ deadline_focused.val # <<>>
                 THEN 1 ELSE 4
    IN  /\ \A i \in 1..n : calls[i].strategy = start + i - 1
        /\ \A i \in 1..(n - 1) : ~calls[i].yielded
        /\ pc = "parse_date_smart" =>
               /\ rung = start + n /\ rung <= 6
               /\ \A i \in 1..n : ~calls[i].yielded
        /\ (pc \in {"ensure_utc", "returned"} /\ rung # 0) =>
               /\ n >= 1
               /\ IF calls[n].yielded
                  THEN /\ dt.kind = "datetime"
                       /\ parser_name = STRATEGIES[calls[n].strategy]
                  ELSE /\ dt.kind = "none"
                       /\ parser_name = <<"n", "o", "n", "e">>
                       /\ calls[n].strategy = 6

\* C9 witness: the ladder started on the focused span, a resolver raised in
\* a strategy that then returned nothing, and a later strategy, one that
\* makes a single resolver call, yielded
C9_raise_then_later_success ==
    /\ pc = "ensure_utc" /\ dt.kind = "datetime"
    /\ Len(calls) >= 3 /\ calls[1].strategy = 1
    /\ calls[Len(calls)].strategy \in {2, 3, 5, 6}
    /\ resolver_raised

\* C10 as stated: when the cleaned text has no abbreviation and no named
\* form, courses is the list of its coded identifiers (2 to 4 letters, an
\* optional space, 2 or 3 digits) whose letters are not an excluded prefix,
\* in text order, each once.
C10_coded_identifiers_listed ==
    LET text_upper == str_upper(cleaned)
        M == [i \in 1..Len(text_upper) |-> course_code_end(text_upper, i)]
        codes == FindAllFrom(text_upper, 1, M, M)
        letters(code) == Slice(code, 1, SkipWhile(code, 1, Upper))
        listed == SelectSeq(codes, LAMBDA code : letters(code) \notin EXCLUDE_PATTERNS)
        Key(x) == remove_spaces(x)
        once == SelectSeq([i \in 1..Len(listed) |->
                              IF \E j \in 1..(i - 1) : Key(listed[j]) = Key(listed[i])
                              THEN <<>> ELSE listed[i]],
                          LAMBDA code : code # <<>>)
    IN  (/\ pc = "returned" /\ ~has_error /\ faulted = "none"
         /\ SelectSeq(abbreviation_words(text_upper),
                      LAMBDA w : w \in COURSE_ABBREVIATIONS) = <<>>
         /\ course_names(cleaned) = <<>>)
        => result.courses = once

\* ------------------------------------------------------------------------
\* C11: a request to /parse/batch whose texts is a list of at most 100 items
\* is answered with success, one entry per item in the order of the items
\* and count equal to their number; the entry of a string item is its parse
\* result without datetime_utc, the entry of any other item is the error
\* entry. A longer list, or a value that is not a list, is answered with
\* status 400 and nothing is parsed.
\* ------------------------------------------------------------------------

\* the request is one parse_batch accepts
batch_accepted == texts.type = "list" /\ Len(texts.items) <= MAX_BATCH

\* entry is what the item at hand must produce
entry_of_item(item, entry) ==
    IF item.type = "str"
    THEN /\ "datetime_utc" \notin DOMAIN entry
         /\ \E d \in BatchAnswers :
                LET r == parse_dates_from_text(item, d)
                IN  /\ DOMAIN entry = DOMAIN r \ {"datetime_utc"}
                    /\ \A k \in DOMAIN entry : entry[k] = r[k]
    ELSE entry = [error |-> <<"Invalid text type">>]

C11_batch_one_entry_per_item ==
    /\ ~batch_accepted =>
          /\ results = <<>>
          /\ response.status \in {"none", "400"}
    /\ batch_accepted =>
          /\ response.status \in {"none", "200"}
          /\ Len(results) <= Len(texts.items)
          /\ \A i \in 1..Len(results) : entry_of_item(texts.items[i], results[i])
    /\ response.status = "400" => ~response.success
    /\ response.status = "200" =>
          /\ response.success
          /\ response.data.count = Len(texts.items)
          /\ response.data.results = results
          /\ Len(results) = Len(texts.items)

\* a list of a dated text and of a number is answered with the parse result
\* of the first and the error entry for the second
C11_mixed_batch_answered ==
    /\ response.status = "200"
    /\ Len(texts.items) = 2
    /\ texts.items[1] = Str(BatchText)
    /\ texts.items[2].type = "int"
    /\ response.data.results[1].datetime_iso # None
    /\ response.data.results[2] = [error |-> <<"Invalid text type">>]

\* ------------------------------------------------------------------------
\* C12: the keywords of a result are exactly the vocabulary terms that occur
\* in the cleaned text as substrings, letter case ignored and also inside a
\* longer word, each once, in the order of the vocabulary whatever their
\* order in the text.
\* ------------------------------------------------------------------------

\* the extractors have run, and the keyword extractor has not failed
keywords_extracted ==
    /\ pc = "parse_date_smart"
    /\ has_result /\ ~has_error
    /\ faulted # "keywords"

\* w occurs in s from position p on, letter case ignored
occurs_at(s, p, w) ==
    /\ p + Len(w) - 1 <= Len(s)
    /\ \A j \in 1..Len(w) : lower_char(s[p + j - 1]) = lower_char(w[j])

C12_keywords_are_vocabulary_hits ==
    keywords_extracted =>
        LET ks == result.keywords
            place(w) == CHOOSE i \in 1..Len(KEYWORDS) : KEYWORDS[i] = w
        IN  /\ \A a \in 1..Len(ks) : \E i \in 1..Len(KEYWORDS) : KEYWORDS[i] = ks[a]
            /\ \A i \in 1..Len(KEYWORDS) :
                   (\E a \in 1..Len(ks) : ks[a] = KEYWORDS[i])
                   <=> (\E p \in 1..Len(cleaned) : occurs_at(cleaned, p, KEYWORDS[i]))
            /\ \A a, b \in 1..Len(ks) : a < b => place(ks[a]) < place(ks[b])

\* "DUE Friday: final Exams" gives exam, final, due: capitals and a plural
\* match, and due, first in the text, comes last
C12_vocabulary_order_not_text_order ==
    /\ keywords_extracted
    /\ text = Str(KeywordsMessage)
    /\ result.keywords = <<KEYWORDS[1], KEYWORDS[5], KEYWORDS[15]>>

\* ------------------------------------------------------------------------
\* C13 as stated: when a focused deadline span exists, the result is not
\* tagged explicit-format on the strength of a date outside that span: a
\* result with a focused span and the tag explicit-format has a date of
\* the explicit grammar inside the span.
\* ------------------------------------------------------------------------
C13_explicit_format_only_without_focus ==
    (/\ pc = "returned" /\ ~has_error
     /\ truth(deadline_focused) = "true"
     /\ result.parser_used = Str(STRATEGIES[4]))
        => explicit_matches(deadline_focused.val) # <<>>

\* ------------------------------------------------------------------------
\* C14 as stated: of the coded forms in the text (2 to 4 letters, an
\* optional space, 2 or 3 digits), those whose letters are in the exclusion
\* set never appear in courses, AM and PM with digits among them, and those
\* whose letters are not in the set are kept.
\* ------------------------------------------------------------------------

\* what COURSE_CODE_RE finds in the upper-cased text
coded_forms(s) ==
    LET text_upper == str_upper(s)
        M == [i \in 1..Len(text_upper) |-> course_code_end(text_upper, i)]
    IN  FindAllFrom(text_upper, 1, M, M)

\* the letters a coded form starts with
letter_prefix(code) == Slice(code, 1, SkipWhile(code, 1, Upper))

C14_excluded_prefix_iff_discarded ==
    (pc = "parse_date_smart" /\ has_result /\ ~has_error /\ faulted # "courses") =>
        LET codes == coded_forms(cleaned)
        IN  \A i \in 1..Len(codes) :
                (letter_prefix(codes[i]) \in EXCLUDE_PATTERNS)
                <=> ~(\E a \in 1..Len(result.courses) :
                         remove_spaces(str_upper(result.courses[a]))
                             = remove_spaces(codes[i]))

\* ------------------------------------------------------------------------
\* C15: when an indicator pattern matches the text after the trigger, the
\* focused span starts where the leftmost match of any of the patterns
\* starts, whatever the place of the pattern in the list, and has 100
\* characters at most.
\* ------------------------------------------------------------------------

\* the extractors have run, the deadline extractor found a phrase
deadline_extracted ==
    /\ pc = "parse_date_smart"
    /\ has_result /\ ~has_error
    /\ ~is_none(result.deadline_phrase)

\* the phrase of the result after its trigger word
post_trigger ==
    LET phrase == result.deadline_phrase.val
    IN  From(phrase, first_alternative(phrase, 1, DEADLINE_TRIGGERS))

\* where the indicator patterns match in the text after the trigger
indicator_starts == {p \in 1..Len(post_trigger) : indicator_at(post_trigger, p)}

C15_focus_starts_at_leftmost_indicator ==
    (deadline_extracted /\ indicator_starts # {}) =>
        LET focused == result.deadline_focused.val
            leftmost == CHOOSE p \in indicator_starts : \A q \in indicator_starts : p <= q
        IN  /\ focused # <<>>
            /\ Len(focused) <= 100
            /\ leftmost + Len(focused) - 1 <= Len(post_trigger)
            /\ \A j \in 1..Len(focused) : focused[j] = post_trigger[leftmost + j - 1]

\* "Report due Friday 11:59pm": the weekday, last in the list of patterns,
\* starts the focused span, not the time of day, first in the list
C15_weekday_before_time ==
    /\ deadline_extracted
    /\ text = Str(WeekdayFirstMessage)
    /\ result.deadline_focused.val
           = <<"F", "r", "i", "d", "a", "y", " ", "1", "1", ":", "5", "9", "p", "m">>

\* ------------------------------------------------------------------------
\* C16: without a deadline trigger in the text, deadline_phrase and
\* deadline_focused are both absent; with one, deadline_phrase starts at the
\* leftmost occurrence of a trigger, letter case ignored, and is that
\* trigger and at most 150 characters after it, none of them a full stop,
\* an exclamation mark, a question mark or a newline.
\* ------------------------------------------------------------------------

\* the extractors have run, and the deadline extractor has not failed
context_extracted ==
    /\ pc = "parse_date_smart"
    /\ has_result /\ ~has_error
    /\ faulted # "deadline"

\* the positions of the cleaned text where a trigger occurs
trigger_places ==
    {p \in 1..Len(cleaned) :
        \E k \in 1..Len(DEADLINE_TRIGGERS) : occurs_at(cleaned, p, DEADLINE_TRIGGERS[k])}

C16_phrase_from_leftmost_trigger ==
    context_extracted =>
        IF trigger_places = {}
        THEN is_none(result.deadline_phrase) /\ is_none(result.deadline_focused)
        ELSE LET phrase == result.deadline_phrase.val
                 first == CHOOSE p \in trigger_places : \A q \in trigger_places : p <= q
             IN  /\ ~is_none(result.deadline_phrase)
                 /\ first + Len(phrase) - 1 <= Len(cleaned)
                 /\ \A j \in 1..Len(phrase) : phrase[j] = cleaned[first + j - 1]
                 /\ \E k \in 1..Len(DEADLINE_TRIGGERS) :
                        /\ occurs_at(phrase, 1, DEADLINE_TRIGGERS[k])
                        /\ Len(phrase) - Len(DEADLINE_TRIGGERS[k]) <= 150
                        /\ \A j \in (Len(DEADLINE_TRIGGERS[k]) + 1)..Len(phrase) :
                               phrase[j] \notin {".", "!", "?", "\n"}

\* "Submit report before the deadline Friday": the phrase starts at Submit,
\* the leftmost trigger, not at deadline, the first of the list
C16_leftmost_trigger_not_first_listed ==
    /\ context_extracted
    /\ text = Str(TriggerOrderMessage)
    /\ result.deadline_phrase = Str(TriggerOrderMessage)

\* ------------------------------------------------------------------------
\* C17 as stated: the named forms in courses are made of capitalized words,
\* joined by "and" at most, so that a word that is not capitalized is never
\* part of a name; and a capitalized word right before an academic-unit
\* noun is captured, also when it stands alone ("Physics exam").
\* ------------------------------------------------------------------------

\* the extractors have run, and the course extractor has not failed
courses_extracted ==
    /\ pc = "parse_date_smart"
    /\ has_result /\ ~has_error
    /\ faulted # "courses"

\* [A-Z][a-z]+ at a word boundary at p, read with the case of the letters
\* as written: the position after the word, or 0
capitalized_word_end(s, p) ==
    IF WordBoundary(s, p) THEN Plus(s, Exactly(s, p, Upper, 1), Lower) ELSE 0

\* white space and then an academic-unit noun at position q
noun_follows(s, q) ==
    /\ q # 0
    /\ first_alternative(s, Plus(s, q, Space), COURSE_NAME_NOUNS) # 0

C17_names_of_capitalized_words ==
    courses_extracted =>
        /\ \A a \in 1..Len(result.courses) :
               LET c == result.courses[a]
               IN  \A j \in 1..Len(c) :
                       ((j = 1 \/ c[j - 1] = " ") /\ c[j] \in Lower)
                       => Lit(c, LitSeq(c, j, <<"a", "n", "d">>), " ") # 0
        /\ \A p \in 1..Len(cleaned) :
               LET q == capitalized_word_end(cleaned, p)
               IN  noun_follows(cleaned, q)
                   => \E a \in 1..Len(result.courses) :
                          LET c == result.courses[a]
                          IN  /\ Len(c) >= q - p
                              /\ SubSeq(c, Len(c) - (q - p) + 1, Len(c))
                                     = SubSeq(cleaned, p, q - 1)

\* ------------------------------------------------------------------------
\* C18 as stated: every leading envelope of a known shape is removed, also
\* when one envelope quotes another, so none of the five prefix patterns
\* matches at the start of the cleaned text; a text without an envelope
\* only loses the white space around it.
\* ------------------------------------------------------------------------

\* some prefix pattern of clean_whatsapp_format matches at the start of s
envelope_at_start(s) ==
    \/ envelope_bracket_ampm(s) # 0
    \/ envelope_sender_first(s) # 0
    \/ envelope_bracket_24h(s) # 0
    \/ envelope_forwarded(s) # 0
    \/ envelope_dash(s) # 0

C18_no_envelope_left ==
    (pc \in {"extract", "parse_date_smart"} /\ cleaned # <<>>) =>
        /\ ~envelope_at_start(cleaned)
        /\ ~envelope_at_start(text.val) => cleaned = normalize_text(strip(text.val))

\* ------------------------------------------------------------------------
\* C19 as stated: the cleaned text holds no curly quote: normalize_text
\* turns the curly double quotes into the straight double quote and the
\* curly single quotes into the straight single quote, makes one space of
\* every run of white space, trims, and changes nothing else.
\* ------------------------------------------------------------------------

\* the canonical form of a character
straight_quote(c) ==
    IF c \in {"U+201C", "U+201D"} THEN "\""
    ELSE IF c \in {"U+2018", "U+2019"} THEN "'"
    ELSE c

C19_quotes_made_straight ==
    (pc \in {"extract", "parse_date_smart"}) =>
        LET s == clean_whatsapp_format(text.val)
        IN  /\ \A i \in 1..Len(cleaned) : cleaned[i] \notin CURLY_QUOTES
            /\ cleaned = strip(collapse_spaces([i \in 1..Len(s) |-> straight_quote(s[i])]))

\* ------------------------------------------------------------------------
\* C20: in every result deadline_focused is present exactly when
\* deadline_phrase is; when present it is a run of consecutive characters,
\* 100 at most and possibly none, of the phrase after its trigger word; and
\* for an empty deadline_focused, as for an absent one, no deadline tag is
\* reported, the ladder trying no deadline strategy on it.
\* ------------------------------------------------------------------------
C20_focus_within_phrase ==
    has_result =>
        /\ is_none(result.deadline_focused) <=> is_none(result.deadline_phrase)
        /\ ~is_none(result.deadline_focused) =>
               LET focused == result.deadline_focused.val
               IN  /\ Len(focused) <= 100
                   /\ \E p \in 1..(Len(post_trigger) + 1) :
                          /\ p + Len(focused) - 1 <= Len(post_trigger)
                          /\ \A j \in 1..Len(focused) : focused[j] = post_trigger[p + j - 1]
        /\ (is_none(result.deadline_focused) \/ result.deadline_focused = Str(<<>>)) =>
               \A k \in 1..3 : result.parser_used # Str(STRATEGIES[k])
        /\ (is_none(deadline_focused) \/ deadline_focused = Str(<<>>)) =>
               \A i \in 1..Len(calls) : calls[i].strategy > 3

\* "Exam 2025-11-15, please submit.": the phrase is the trigger alone, the
\* focused text is present and empty, and the date comes from a strategy
\* that reads the full text
C20_empty_focus_dated_from_full_text ==
    /\ pc = "returned" /\ ~has_error
    /\ text = Str(EmptyFocusMessage)
    /\ result.deadline_phrase = Str(<<"s", "u", "b", "m", "i", "t">>)
    /\ result.deadline_focused = Str(<<>>)
    /\ result.parser_used = Str(STRATEGIES[4])


\* ------------------------------------------------------------------------
\* C21: the task store
\* ------------------------------------------------------------------------

pending_status == Str(<<"p", "e", "n", "d", "i", "n", "g">>)

completed_status == Str(<<"c", "o", "m", "p", "l", "e", "t", "e", "d">>)

not_found == [status |-> "404", success |-> FALSE, error |-> "Task not found"]

\* the step handles a request that names an id
names_an_id == request'.op \in {"update", "complete", "delete", "get"}

\* the id the step's request names is that of a row stored before the step
id_was_stored == request'.task_id.fits /\ request'.task_id.n \in DOMAIN tasks

\* the step leaves every row but row i as it was
others_kept(i) ==
    \A j \in DOMAIN tasks \ {i} : j \in DOMAIN tasks' /\ tasks'[j] = tasks[j]

\* a step that creates a task gives it a fresh id and the status pending and
\* keeps the other rows; a create that is turned down stores nothing
created_starts_pending ==
    request'.op = "create" =>
        IF reply'.status # "201" THEN tasks' = tasks
        ELSE /\ reply'.data.id \notin DOMAIN tasks
             /\ DOMAIN tasks' = DOMAIN tasks \cup {reply'.data.id}
             /\ tasks'[reply'.data.id].status = pending_status
             /\ others_kept(reply'.data.id)

\* complete on a stored id sets the row's status to completed and its
\* updated_at to the time of the request, and nothing else in the table
complete_sets_status_only ==
    (request'.op = "complete" /\ id_was_stored) =>
        /\ reply'.status = "200"
        /\ DOMAIN tasks' = DOMAIN tasks
        /\ tasks'[request'.task_id.n].status = completed_status
        /\ tasks'[request'.task_id.n].updated_at = reply'.timestamp
        /\ \A c \in DOMAIN tasks[request'.task_id.n] \ {"status", "updated_at"} :
               tasks'[request'.task_id.n][c] = tasks[request'.task_id.n][c]
        /\ others_kept(request'.task_id.n)

updated_fields ==
    {"title", "description", "status", "due_date"} \cap DOMAIN request'.data

====
